---- MODULE Spec2Model ----
(***************************************************************************)
(* Model of backend/main.py: the Flask request handlers upload_file,       *)
(* get_image_urls, list_image_metadata and delete_image, and the bucket of *)
(* the object store they talk to.                                          *)
(*                                                                         *)
(* Spec      one request at a time: every step is one whole handler run.   *)
(* SpecConc  delete_image requests running concurrently, one store call    *)
(*           per step.                                                     *)
(***************************************************************************)
EXTENDS Integers, Sequences, FiniteSets, TLC

\* ------------------------------------------------------------------ bounds
MaxNames == 2
MaxContent == 2
NumProcs == 2

NameList == <<"a.png", "b/c.png", "d.jpg", "e.gif">>
Names == {NameList[i] : i \in 1..MaxNames}
\* the files a client uploads: file v has body v and a declared content type
Contents == 1..MaxContent
Body(v) == v
ContentType(v) == IF v % 2 = 1 THEN "image/png" ELSE "image/jpeg"
\* messages of the exceptions the store client raises
StoreMsgs == {"503 backend unavailable", "403 permission denied"}
NotFoundMsg == "404 No such object"
Procs == 1..NumProcs

NoName == ""
NoMsg == "none"
Null == <<>>

VARIABLES
    bucket,     \* the blobs of the bucket: a set of [name, content, content_type]
    req,        \* the request handled last: [op, name, files]
    resp,       \* its response: [status, error, body]
    calls,      \* the store calls that request made, in order
    uploaded,   \* history: names uploaded with 201 and not deleted with 200 since
    repeat,     \* history: the request before this one had the same op and name
                \* and was answered 200 or 201
    pc,         \* SpecConc: where each delete_image request stands
    rname,      \* SpecConc: the filename of each request
    rstatus     \* SpecConc: the status each request returned (0: none yet)

vars == <<bucket, req, resp, calls, uploaded, repeat, pc, rname, rstatus>>
seqVars == <<req, resp, calls, uploaded, repeat>>
concVars == <<pc, rname, rstatus>>

\* ------------------------------------------------------------ object store
Blob(name, content, content_type) ==
    [name |-> name, content |-> content, content_type |-> content_type]

BlobNames(b) == {x.name : x \in b}

\* an existence check that always answers yes
blob_exists_always(b, name) == TRUE

\* blob.exists()
blob_exists(b, name) == name \in BlobNames(b)

\* a write that keeps the blob it should replace
upload_keep_old(b, name, content, content_type) ==
    b \cup {Blob(name, content, content_type)}

\* a write that is lost
upload_lost(b, name, content, content_type) == b

\* blob.upload_from_file(stream, content_type=...): the bucket after the write
upload_from_file(b, name, content, content_type) ==
    {x \in b : x.name # name} \cup {Blob(name, content, content_type)}

\* blob.delete(): the bucket after the deletion of an existing blob
blob_delete(b, name) == {x \in b : x.name # name}

\* the orders in which a set can be enumerated
Perms(S) ==
    {s \in [1..Cardinality(S) -> S] : \A i, j \in 1..Cardinality(S) : s[i] = s[j] => i = j}

\* bucket.list_blobs(), consumed by iteration: either every blob, in an order
\* the store chooses, or an exception. The client fetches the listing a page
\* (of up to a thousand blobs) at a time, so for the buckets of this model the
\* exception comes with the first page, before any blob is yielded.
list_blobs(b) ==
    {[ok |-> TRUE, items |-> s, msg |-> NoMsg] : s \in Perms(b)}
    \cup {[ok |-> FALSE, items |-> <<>>, msg |-> e] : e \in StoreMsgs}

SignedUrl(name) == <<"v4", "GET", "15min", name>>

\* blob.generate_signed_url(version="v4", expiration=15 min, method="GET");
\* failing: the blobs for which the call raises
generate_signed_url(blob, failing) ==
    IF blob.name \in failing
        THEN [ok |-> FALSE, url |-> Null]
        ELSE [ok |-> TRUE, url |-> SignedUrl(blob.name)]

\* ------------------------------------------------------------ call records
Call(op, name, ok, msg, items, count) ==
    [op |-> op, name |-> name, ok |-> ok, msg |-> msg, items |-> items, count |-> count]

ListCall(o) == Call("list_blobs", NoName, o.ok, o.msg, o.items, Len(o.items))

\* len(list(bucket.list_blobs())) of the log line: only the length is used
relist_count(b) ==
    {[ok |-> o.ok, items |-> <<>>, msg |-> o.msg, count |-> Len(o.items)] :
        o \in list_blobs(b)}
RelistCall(o) == Call("list_blobs", NoName, o.ok, o.msg, <<>>, o.count)

\* the names of the blobs an enumeration yielded
Yielded(o) == {o.items[i].name : i \in 1..Len(o.items)}

SignCalls(items, failing) ==
    [i \in 1..Len(items) |->
        Call("generate_signed_url", items[i].name, items[i].name \notin failing,
             NoMsg, <<>>, 0)]

\* ---------------------------------------------------------------- responses
Response(status, error, body, filename) ==
    [status |-> status, error |-> error, body |-> body, filename |-> filename]
ErrorBody(text, detail) == [text |-> text, detail |-> detail]
NoError == ErrorBody("", NoMsg)
Result(r, c, b) == [resp |-> r, calls |-> c, bucket |-> b]

\* ------------------------------------------------------------- upload_file
File(field, filename, content, content_type) ==
    [field |-> field, filename |-> filename, content |-> content,
     content_type |-> content_type]

\* request.files of an upload request: no file, or one file under a field name
RequestFiles ==
    {{}} \cup
    {{File("image", fn, Body(v), ContentType(v))} : fn \in Names \cup {NoName},
                                                    v \in Contents}

\* 'image' in request.files
HasImage(files) == \E f \in files : f.field = "image"
\* request.files['image']
ImageOf(files) == CHOOSE f \in files : f.field = "image"

\* a check of the filename that never finds it empty
filename_never_empty(file) == FALSE

\* file.filename == ''
filename_empty(file) == file.filename = NoName

\* bool(file): a FileStorage is true when it has a filename
file_truthy(file) == file.filename # NoName

\* {"error": f"Failed to upload file: {e}"}
upload_error(e) == ErrorBody("Failed to upload file", e)

\* the handler: outcome is what the store write does (NoMsg: it succeeds)
upload_file_run(b, files, outcome) ==
    IF ~HasImage(files)
    THEN Result(Response(400, ErrorBody("No image file part in the request", NoMsg),
                         <<>>, NoName), <<>>, b)
    ELSE LET file == ImageOf(files) IN
      IF filename_empty(file)
      THEN Result(Response(400, ErrorBody("No selected file", NoMsg), <<>>, NoName),
                  <<>>, b)
      ELSE IF file_truthy(file)
      THEN IF outcome = NoMsg
           THEN Result(Response(201, NoError, <<>>, file.filename),
                       <<Call("upload_from_file", file.filename, TRUE, NoMsg, <<>>, 0)>>,
                       upload_from_file(b, file.filename, file.content,
                                        file.content_type))
           ELSE Result(Response(500, upload_error(outcome), <<>>, NoName),
                       <<Call("upload_from_file", file.filename, FALSE, outcome, <<>>, 0)>>,
                       b)
      ELSE Result(Response(500,
                     ErrorBody("An unexpected error occurred during file processing",
                               NoMsg), <<>>, NoName), <<>>, b)

\* the name a request's upload is for
UploadName(files) == IF HasImage(files) THEN ImageOf(files).filename ELSE NoName

\* ---------------------------------------------------------- get_image_urls
\* the loop with a placeholder appended for a blob that could not be signed
UrlLoopPlaceholder(items, failing) ==
    [i \in 1..Len(items) |-> generate_signed_url(items[i], failing).url]

\* for blob in blobs: try: urls.append(signed_url) except: log
RECURSIVE UrlLoop(_, _)
UrlLoop(items, failing) ==
    IF items = <<>> THEN <<>>
    ELSE LET r == generate_signed_url(Head(items), failing) IN
         (IF r.ok THEN <<r.url>> ELSE <<>>) \o UrlLoop(Tail(items), failing)

\* an error body that leaves the exception out
urls_error_generic(e) == ErrorBody("Failed to retrieve image URLs", NoMsg)

\* {"error": f"Failed to retrieve image URLs: {e}"}
urls_error(e) == ErrorBody("Failed to retrieve image URLs", e)

\* the handler: o1 is the enumeration the loop iterates, o2 the enumeration of
\* the log line after the loop
get_image_urls_run(b, o1, failing, o2) ==
    IF ~o1.ok
    THEN Result(Response(500, urls_error(o1.msg), <<>>, NoName),
                <<ListCall(o1)>> \o SignCalls(o1.items, failing), b)
    ELSE IF ~o2.ok
    THEN Result(Response(500, urls_error(o2.msg), <<>>, NoName),
                <<ListCall(o1)>> \o SignCalls(o1.items, failing) \o <<RelistCall(o2)>>, b)
    ELSE Result(Response(200, NoError, UrlLoop(o1.items, failing), NoName),
                <<ListCall(o1)>> \o SignCalls(o1.items, failing) \o <<RelistCall(o2)>>, b)

\* ----------------------------------------------------- list_image_metadata
\* the record of one blob; size and updated are copied from the blob as the
\* store reports them and are left out
Info(blob, url) == [name |-> blob.name, filename |-> blob.name, url |-> url]

\* the loop with a blob that could not be signed left out
RECURSIVE MetaLoopDrop(_, _)
MetaLoopDrop(items, failing) ==
    IF items = <<>> THEN <<>>
    ELSE LET r == generate_signed_url(Head(items), failing) IN
         (IF r.ok THEN <<Info(Head(items), r.url)>> ELSE <<>>)
            \o MetaLoopDrop(Tail(items), failing)

\* for blob in blobs: signed_url = None; try: sign; image_info_list.append(...)
RECURSIVE MetaLoop(_, _)
MetaLoop(items, failing) ==
    IF items = <<>> THEN <<>>
    ELSE LET r == generate_signed_url(Head(items), failing) IN
         <<Info(Head(items), IF r.ok THEN r.url ELSE Null)>>
            \o MetaLoop(Tail(items), failing)

\* {"error": f"Failed to retrieve image list: {e}"}
list_error(e) == ErrorBody("Failed to retrieve image list", e)

list_image_metadata_run(b, o1, failing, o2) ==
    IF ~o1.ok
    THEN Result(Response(500, list_error(o1.msg), <<>>, NoName),
                <<ListCall(o1)>> \o SignCalls(o1.items, failing), b)
    ELSE IF ~o2.ok
    THEN Result(Response(500, list_error(o2.msg), <<>>, NoName),
                <<ListCall(o1)>> \o SignCalls(o1.items, failing) \o <<RelistCall(o2)>>, b)
    ELSE Result(Response(200, NoError, MetaLoop(o1.items, failing), NoName),
                <<ListCall(o1)>> \o SignCalls(o1.items, failing) \o <<RelistCall(o2)>>, b)

\* ------------------------------------------------------------ delete_image
\* {"error": f"Failed to delete file '{filename}'."}: the exception is logged,
\* not returned
delete_error(filename) == ErrorBody("Failed to delete file", NoMsg)

\* what blob.delete() raises: the injected store failure, or NotFound for a
\* blob that is not there (NoMsg: nothing)
delete_raises(b, name, injected) ==
    IF injected # NoMsg THEN injected
    ELSE IF name \notin BlobNames(b) THEN NotFoundMsg
    ELSE NoMsg

\* the handler: e1 is what blob.exists() raises, e2 what blob.delete() is made
\* to raise (NoMsg: nothing)
delete_image_run(b, filename, e1, e2) ==
    IF filename = NoName
    THEN Result(Response(400, ErrorBody("Filename cannot be empty.", NoMsg), <<>>, NoName),
                <<>>, b)
    ELSE IF e1 # NoMsg
    THEN Result(Response(500, delete_error(filename), <<>>, NoName),
                <<Call("exists", filename, FALSE, e1, <<>>, 0)>>, b)
    ELSE IF ~blob_exists(b, filename)
    THEN Result(Response(404, ErrorBody("File not found.", NoMsg), <<>>, NoName),
                <<Call("exists", filename, TRUE, NoMsg, <<>>, 0)>>, b)
    ELSE LET e == delete_raises(b, filename, e2) IN
      IF e # NoMsg
      THEN Result(Response(500, delete_error(filename), <<>>, NoName),
                  <<Call("exists", filename, TRUE, NoMsg, <<>>, 0),
                    Call("delete", filename, FALSE, e, <<>>, 0)>>, b)
      ELSE Result(Response(200, NoError, <<>>, NoName),
                  <<Call("exists", filename, TRUE, NoMsg, <<>>, 0),
                    Call("delete", filename, TRUE, NoMsg, <<>>, 0)>>,
                  blob_delete(b, filename))

\* ------------------------------------------------- one request at a time
NoRequest == [op |-> "none", name |-> NoName, files |-> {}]
NoResponse == Response(0, NoError, <<>>, NoName)
Idle == [p \in Procs |-> "idle"]
NoNames == [p \in Procs |-> NoName]
NoStatus == [p \in Procs |-> 0]

Init ==
    /\ bucket = {}
    /\ req = NoRequest
    /\ resp = NoResponse
    /\ calls = <<>>
    /\ uploaded = {}
    /\ repeat = FALSE
    /\ pc = Idle
    /\ rname = NoNames
    /\ rstatus = NoStatus

\* the request before the one being handled had this op and name and succeeded
Repeats(op, name) == req.op = op /\ req.name = name /\ resp.status \in {200, 201}

\* POST /api/upload
upload_file ==
    \E files \in RequestFiles, outcome \in {NoMsg} \cup StoreMsgs :
        LET r == upload_file_run(bucket, files, outcome) IN
        /\ bucket' = r.bucket
        /\ req' = [op |-> "upload", name |-> UploadName(files), files |-> files]
        /\ resp' = r.resp
        /\ calls' = r.calls
        /\ uploaded' = IF r.resp.status = 201 THEN uploaded \cup {UploadName(files)}
                       ELSE uploaded
        /\ repeat' = Repeats("upload", UploadName(files))
        /\ UNCHANGED concVars

\* GET /api/images
get_image_urls ==
    \E o1 \in list_blobs(bucket), o2 \in relist_count(bucket) :
      \E failing \in SUBSET Yielded(o1) :
        LET r == get_image_urls_run(bucket, o1, failing, o2) IN
        /\ bucket' = r.bucket
        /\ req' = [op |-> "images", name |-> NoName, files |-> {}]
        /\ resp' = r.resp
        /\ calls' = r.calls
        /\ repeat' = Repeats("images", NoName)
        /\ UNCHANGED <<uploaded, concVars>>

\* GET /api/list-images
list_image_metadata ==
    \E o1 \in list_blobs(bucket), o2 \in relist_count(bucket) :
      \E failing \in SUBSET Yielded(o1) :
        LET r == list_image_metadata_run(bucket, o1, failing, o2) IN
        /\ bucket' = r.bucket
        /\ req' = [op |-> "list-images", name |-> NoName, files |-> {}]
        /\ resp' = r.resp
        /\ calls' = r.calls
        /\ repeat' = Repeats("list-images", NoName)
        /\ UNCHANGED <<uploaded, concVars>>

\* DELETE /api/delete-image/<path:filename>; the route matches no empty path
delete_image ==
    \E filename \in Names, e1 \in {NoMsg} \cup StoreMsgs, e2 \in {NoMsg} \cup StoreMsgs :
        LET r == delete_image_run(bucket, filename, e1, e2) IN
        /\ bucket' = r.bucket
        /\ req' = [op |-> "delete", name |-> filename, files |-> {}]
        /\ resp' = r.resp
        /\ calls' = r.calls
        /\ uploaded' = IF r.resp.status = 200 THEN uploaded \ {filename} ELSE uploaded
        /\ repeat' = Repeats("delete", filename)
        /\ UNCHANGED concVars

Next == upload_file \/ get_image_urls \/ list_image_metadata \/ delete_image

Spec == Init /\ [][Next]_vars

\* ------------------------------------------- concurrent delete_image requests
\* a bucket that holds a blob under every name
FullBuckets ==
    {{Blob(n, Body(f[n]), ContentType(f[n])) : n \in Names} : f \in [Names -> Contents]}

InitConc ==
    /\ bucket \in FullBuckets
    /\ req = NoRequest
    /\ resp = NoResponse
    /\ calls = <<>>
    /\ uploaded = {}
    /\ repeat = FALSE
    /\ pc = Idle
    /\ rname = NoNames
    /\ rstatus = NoStatus

\* the request arrives: blob = bucket.blob(filename)
delete_begin(p) ==
    /\ pc[p] = "idle"
    /\ \E filename \in Names : rname' = [rname EXCEPT ![p] = filename]
    /\ pc' = [pc EXCEPT ![p] = "exists"]
    /\ UNCHANGED <<bucket, rstatus, seqVars>>

\* if not blob.exists(): return 404
delete_exists(p) ==
    /\ pc[p] = "exists"
    /\ IF blob_exists(bucket, rname[p])
       THEN /\ pc' = [pc EXCEPT ![p] = "delete"]
            /\ UNCHANGED rstatus
       ELSE /\ pc' = [pc EXCEPT ![p] = "done"]
            /\ rstatus' = [rstatus EXCEPT ![p] = 404]
    /\ UNCHANGED <<bucket, rname, seqVars>>

\* blob.delete(); return 200 / except: return 500
delete_blob(p) ==
    /\ pc[p] = "delete"
    /\ IF delete_raises(bucket, rname[p], NoMsg) # NoMsg
       THEN /\ rstatus' = [rstatus EXCEPT ![p] = 500]
            /\ UNCHANGED bucket
       ELSE /\ rstatus' = [rstatus EXCEPT ![p] = 200]
            /\ bucket' = blob_delete(bucket, rname[p])
    /\ pc' = [pc EXCEPT ![p] = "done"]
    /\ UNCHANGED <<rname, seqVars>>

NextConc == \E p \in Procs : delete_begin(p) \/ delete_exists(p) \/ delete_blob(p)

SpecConc == InitConc /\ [][NextConc]_vars

\* ------------------------------------------------------------------ claims
IsList(c) == c.op = "list_blobs"
IsSign(c) == c.op = "generate_signed_url"
IsOk(c) == c.ok
\* a store call failed with a store error (unreachable, rejected)
IsStoreFault(c) == ~c.ok /\ c.msg \in StoreMsgs
Faults(cs) == SelectSeq(cs, IsStoreFault)
ListOps == {"images", "list-images"}
\* of a list request: the enumeration the loop iterated, and its signing calls
Enumerated == calls[1].items
Signs == SelectSeq(calls, IsSign)
Named(b, n) == {x \in b : x.name = n}
Others(b, n) == {x \in b : x.name # n}

\* C1, as claimed: a delete request for a name with no blob returns 404 and
\* leaves the bucket unchanged; for a name with a blob, when the store does
\* not fail, it returns 200 and the blob is gone, and a second delete request
\* for it right after returns 404.
C1_DeleteAsClaimed ==
    [][\A n \in Names : (req'.op = "delete" /\ req'.name = n) =>
         /\ (n \notin BlobNames(bucket) => resp'.status = 404 /\ bucket' = bucket)
         /\ (n \in BlobNames(bucket) /\ Faults(calls') = <<>> =>
                resp'.status = 200 /\ n \notin BlobNames(bucket'))
         /\ (repeat' /\ Faults(calls') = <<>> => resp'.status = 404)]_vars

\* C1, amended: a delete request for a name with no blob leaves the bucket
\* unchanged and, when the store does not fail, returns 404; for a name with a
\* blob, when the store does not fail, it returns 200 and the blob is gone,
\* and a second delete request for it right after returns 404.
C1_DeleteSequential ==
    [][\A n \in Names : (req'.op = "delete" /\ req'.name = n) =>
         /\ (n \notin BlobNames(bucket) =>
                bucket' = bucket /\ (Faults(calls') = <<>> => resp'.status = 404))
         /\ (n \in BlobNames(bucket) /\ Faults(calls') = <<>> =>
                resp'.status = 200 /\ n \notin BlobNames(bucket'))
         /\ (repeat' /\ Faults(calls') = <<>> => resp'.status = 404)]_vars

\* a delete answered 200 was followed at once by a delete of the same name,
\* which was answered 404
C1_Witness == req.op = "delete" /\ repeat /\ resp.status = 404

\* C2: a 200 response of /api/list-images holds one record per enumerated
\* blob, in enumeration order, name = filename = the blob's name, and url null
\* exactly where the signing call failed.
C2_OneRecordPerBlob ==
    (req.op = "list-images" /\ resp.status = 200) =>
        /\ Len(resp.body) = Len(Enumerated)
        /\ Len(Signs) = Len(Enumerated)
        /\ \A i \in 1..Len(Enumerated) :
            /\ resp.body[i].name = Enumerated[i].name
            /\ resp.body[i].filename = Enumerated[i].name
            /\ Signs[i].name = Enumerated[i].name
            /\ (resp.body[i].url = Null) <=> ~Signs[i].ok

\* a listing of two blobs or more where one was signed and one was not
C2_Witness ==
    /\ req.op = "list-images" /\ resp.status = 200 /\ Len(resp.body) >= 2
    /\ \E i, j \in 1..Len(resp.body) : resp.body[i].url = Null /\ resp.body[j].url # Null

\* C3: a 200 response of /api/images is the signed URLs of the enumerated
\* blobs whose signing succeeded, in enumeration order, with no element for a
\* blob whose signing failed.
C3_SignedUrlsOnly ==
    (req.op = "images" /\ resp.status = 200) =>
        LET signed == SelectSeq(Signs, IsOk) IN
        /\ Len(Signs) = Len(Enumerated)
        /\ \A i \in 1..Len(Enumerated) : Signs[i].name = Enumerated[i].name
        /\ Len(resp.body) = Len(signed)
        /\ Len(resp.body) = Len(Enumerated) - Cardinality({i \in 1..Len(Signs) : ~Signs[i].ok})
        /\ \A i \in 1..Len(signed) : resp.body[i] = SignedUrl(signed[i].name)

\* a listing of two blobs or more that returned fewer URLs, but not none
C3_Witness ==
    /\ req.op = "images" /\ resp.status = 200 /\ Len(Enumerated) >= 2
    /\ Len(resp.body) < Len(Enumerated) /\ Len(resp.body) >= 1

\* C4: a 200 response of /api/list-images has a record for every name that was
\* uploaded with 201 and not deleted since.
C4_UploadedIsListed ==
    (req.op = "list-images" /\ resp.status = 200) =>
        \A f \in uploaded : \E i \in 1..Len(resp.body) : resp.body[i].name = f

\* a listing answered 200 while two uploaded names were in the bucket
C4_Witness ==
    req.op = "list-images" /\ resp.status = 200 /\ Cardinality(uploaded) >= 2

\* C5: an upload request with no 'image' field is answered 400 "no file part",
\* one with the field and an empty filename 400 "no selected file"; neither
\* makes a store call or changes the bucket.
C5_UploadValidation ==
    [][req'.op = "upload" =>
         /\ ~HasImage(req'.files) =>
              /\ resp'.status = 400
              /\ resp'.error.text = "No image file part in the request"
              /\ calls' = <<>> /\ bucket' = bucket
         /\ (HasImage(req'.files) /\ ImageOf(req'.files).filename = NoName) =>
              /\ resp'.status = 400
              /\ resp'.error.text = "No selected file"
              /\ calls' = <<>> /\ bucket' = bucket]_vars

\* an upload with an empty filename was refused while the bucket held a blob
C5_Witness ==
    /\ req.op = "upload" /\ HasImage(req.files) /\ req.name = NoName
    /\ resp.status = 400 /\ bucket # {}

\* C6: the bucket holds at most one blob per name; after an upload answered
\* 201 it holds exactly one blob of that name, with the content and content
\* type of that upload, and the blobs of other names are as before.
C6_Overwrite ==
    /\ [](\A n \in Names : Cardinality(Named(bucket, n)) <= 1)
    /\ []((req.op = "upload" /\ resp.status = 201) =>
            LET file == ImageOf(req.files) IN
            Named(bucket, req.name) =
                {Blob(req.name, file.content, file.content_type)})
    /\ [][(req'.op = "upload" /\ resp'.status = 201) =>
            Others(bucket', req'.name) = Others(bucket, req'.name)]_vars

\* two uploads of the same name in a row were answered 201, beside another blob
C6_Witness ==
    req.op = "upload" /\ repeat /\ resp.status = 201 /\ Cardinality(bucket) >= 2

\* C7, as claimed: a list request is answered 200 when its enumeration
\* succeeds, whatever signing does, and 500, without a result list, exactly
\* when the enumeration fails.
C7_OnlyEnumerationFails ==
    req.op \in ListOps =>
        /\ calls[1].ok => resp.status = 200
        /\ resp.status = 500 <=> ~calls[1].ok
        /\ resp.status = 500 => resp.body = <<>>

\* C8, as claimed: in every handler a store error is answered 500 with the
\* store error's message in the error body.
C8_MessagePassedThrough ==
    (req.op \in {"upload", "images", "list-images", "delete"} /\ Faults(calls) # <<>>) =>
        resp.status = 500 /\ resp.error.detail = Faults(calls)[1].msg

\* C8, amended: a store error is answered 500; the error body carries the
\* store error's message in upload_file, get_image_urls and
\* list_image_metadata, and no such message in delete_image.
C8_MessagePassedExceptDelete ==
    (req.op \in {"upload", "images", "list-images", "delete"} /\ Faults(calls) # <<>>) =>
        /\ resp.status = 500
        /\ req.op # "delete" => resp.error.detail = Faults(calls)[1].msg
        /\ req.op = "delete" => resp.error.detail = NoMsg

\* the enumeration of /api/images failed and the response carries its message
C8_Witness ==
    /\ req.op = "images" /\ resp.status = 500
    /\ resp.error.detail \in StoreMsgs

\* C9, as claimed: a list request makes one list_blobs call, then one signing
\* call per enumerated blob, and no other enumeration.
C9_OneEnumeration ==
    req.op \in ListOps =>
        /\ Len(SelectSeq(calls, IsList)) = 1
        /\ IsList(calls[1])
        /\ Len(Signs) = Len(Enumerated)

\* C10, as claimed: of concurrent delete requests for a name that has a blob,
\* none calls blob.delete() when the blob is gone, none is answered 500, and
\* among the answered ones exactly one is answered 200.
C10_ConcurrentDeletes ==
    /\ \A p \in Procs : rstatus[p] # 500
    /\ \A n \in Names :
        LET answered == {p \in Procs : pc[p] = "done" /\ rname[p] = n} IN
        answered # {} => Cardinality({p \in answered : rstatus[p] = 200}) = 1

====
